---- MODULE Spec2Model ----
(***************************************************************************)
(* Model of src/conn/query_result.rs (rust-mysql-simple): the QueryResult  *)
(* iterator over the result sets of one response, its SetIteratorState,    *)
(* the ResultSet view bound to one set index, and the two Drop impls.      *)
(*                                                                         *)
(* The connection (Conn) lives outside query_result.rs.  It is modelled    *)
(* from the interface the specification gives for it: more-sets-pending,   *)
(* resolve-next-set-header and decode-one-row over a response that is a    *)
(* finite sequence of sets.  A set is row-bearing (columns, then row       *)
(* frames, then an end-of-set marker or a failing frame that terminates    *)
(* the set), a status record, or a header that fails to resolve.           *)
(***************************************************************************)
EXTENDS Integers, Sequences, FiniteSets, TLC

\* Bounds of the explored responses.
MaxSets == 3
MaxRows == 2

\* Value of `view` while no ResultSet borrows the QueryResult.
NoView == -1

VARIABLES
    resp,        \* the response on the wire: sequence of set descriptors
    conn,        \* the connection's read position
    state,       \* QueryResult.state : SetIteratorState
    set_index,   \* QueryResult.set_index
    view,        \* ResultSet.set_index of the live view, or NoView
    alive,       \* FALSE once the QueryResult has been dropped
    last,        \* the last operation of the caller and what it returned
    yielded,     \* rows handed to the caller, in order
    delivered,   \* errors handed to the caller, in order
    discarded,   \* items swallowed by a drain-on-drop loop, in order
    views,       \* set indices of the views handed out by next_set, in order,
                 \* for as long as the caller uses next_set and views only
    pulled,      \* TRUE once the caller pulled a row from the QueryResult itself
    dbg,         \* debug checks that have failed: "handle_next", "next_set"
    first_pass,  \* TRUE while the caller has only pulled rows from the QueryResult
                 \* itself and no pull has returned None yet
    pc           \* "idle" between the calls of the caller; "view_drop" / "drop"
                 \* while the drain loop of a dropped ResultSet / QueryResult
                 \* runs, where the loops are followed one iteration at a time

vars == <<resp, conn, state, set_index, view, alive, last, yielded,
          delivered, discarded, views, pulled, first_pass, dbg, pc>>

----------------------------------------------------------------------------
(* Values *)

\* OkPacket: affected rows, last insert id (Option), warnings, info.
StatusRecords ==
    { [affected |-> 5, last_insert_id |-> <<>>, warnings |-> 0, info |-> ""],
      [affected |-> 1, last_insert_id |-> <<7>>, warnings |-> 2, info |-> "x"] }

\* One set of a response as the server emits it.
\* A row-bearing set has no row, one row or MaxRows rows.
RowCounts == {0, 1, MaxRows}
RowSets == { [hdr |-> "cols", nrows |-> n, bad |-> b, ok |-> <<>>] :
                n \in RowCounts, b \in BOOLEAN }
OkSets  == { [hdr |-> "ok", nrows |-> 0, bad |-> FALSE, ok |-> <<s>>] :
                s \in StatusRecords }
ErrSets == { [hdr |-> "err", nrows |-> 0, bad |-> FALSE, ok |-> <<>>] }
SetDescs == RowSets \cup OkSets \cup ErrSets

RECURSIVE SeqsUpTo(_, _)
SeqsUpTo(S, n) ==
    IF n = 0 THEN { <<>> }
    ELSE LET shorter == SeqsUpTo(S, n - 1)
         IN shorter \cup { Append(s, x) : s \in { t \in shorter : Len(t) = n - 1 }, x \in S }

\* A QueryResult exists only when the first header resolved (QueryResult::new
\* takes Or<Vec<Column>, OkPacket>), so set 0 never has a failing header.
Responses ==
    { <<f>> \o t : f \in RowSets \cup OkSets, t \in SeqsUpTo(SetDescs, MaxSets - 1) }

NumSets == Len(resp)
SetAt(k) == resp[k + 1]

\* Items a row-iteration call returns.
NoneItem == [kind |-> "none"]
RowItem(k, i) == [kind |-> "row", set |-> k, row |-> i]
ErrItem(src, k) == [kind |-> "err", src |-> src, set |-> k]
ViewItem(k) == [kind |-> "view", set |-> k]

\* SetIteratorState
InSet(cols) == [tag |-> "InSet", cols |-> cols]
InEmptySet(ok) == [tag |-> "InEmptySet", ok |-> ok]
Errored(err) == [tag |-> "Errored", err |-> err]
OnBoundary == [tag |-> "OnBoundary"]
Done == [tag |-> "Done"]

----------------------------------------------------------------------------
(* The connection, from the interface of the specification *)

\* more-sets-pending(): the wire still has an unresolved next-set header.
more_results_exists(c) == c.cur + 1 < NumSets

\* resolve-next-set-header(): consumes the header frame of the next set.
\* desync records that a header was read while frames of the current set were
\* still unread; raised records the errors the connection has reported.
handle_result_set(c) ==
    LET n == c.cur + 1
        d == SetAt(n)
        e == ErrItem("hdr", n)
    IN [conn |-> [cur |-> n, pos |-> 0, has_results |-> (d.hdr = "cols"),
                  raised |-> IF d.hdr = "err" THEN c.raised \cup {e} ELSE c.raised,
                  desync |-> c.desync \/ c.has_results],
        res  |-> CASE d.hdr = "cols" -> [ok |-> TRUE, state |-> InSet(n)]
                   [] d.hdr = "ok"   -> [ok |-> TRUE, state |-> InEmptySet(d.ok[1])]
                   [] d.hdr = "err"  -> [ok |-> FALSE, err |-> e]]

\* decode-one-row(columns): consumes one row frame, or the end-of-set marker.
\* A frame that fails to decode is terminal for its set.
ProtocolNext(c, cols) ==
    LET d == SetAt(c.cur)
    IN IF ~c.has_results THEN [conn |-> c, res |-> NoneItem]
       ELSE IF c.pos < d.nrows
            THEN [conn |-> [c EXCEPT !.pos = c.pos + 1], res |-> RowItem(c.cur, c.pos)]
       ELSE IF d.bad
            THEN [conn |-> [c EXCEPT !.has_results = FALSE,
                                     !.raised = c.raised \cup {ErrItem("row", c.cur)}],
                  res |-> ErrItem("row", c.cur)]
       ELSE [conn |-> [c EXCEPT !.has_results = FALSE], res |-> NoneItem]

----------------------------------------------------------------------------
(* QueryResult: q is [conn, state, set_index], with the failed debug checks *)

\* impl From<...> for SetIteratorState, as used by QueryResult::new
FromMeta(d) == IF d.hdr = "cols" THEN InSet(0) ELSE InEmptySet(d.ok[1])

from_state(c, st) == [conn |-> c, state |-> st, set_index |-> 0, dbg |-> {}]

\* handle_next that never asks the connection for a further set
handle_next_AlwaysDone(q) == [q EXCEPT !.state = Done]

\* handle_next without `self.set_index += 1`
handle_next_NoIndexIncrement(q) ==
    IF more_results_exists(q.conn)
    THEN LET r == handle_result_set(q.conn)
         IN [q EXCEPT !.conn = r.conn,
                      !.state = IF r.res.ok THEN r.res.state ELSE Errored(r.res.err)]
    ELSE [q EXCEPT !.state = Done]

\* the check of handle_next under cfg!(debug_assertions); a failure is
\* recorded and the call goes on as in a release build
handle_next_check(q) ==
    IF q.state = OnBoundary THEN q ELSE [q EXCEPT !.dbg = @ \cup {"handle_next"}]

\* QueryResult::handle_next
handle_next(q) ==
    LET c == handle_next_check(q)
    IN IF more_results_exists(c.conn)
       THEN LET r == handle_result_set(c.conn)
            IN [c EXCEPT !.conn = r.conn,
                         !.state = IF r.res.ok THEN r.res.state ELSE Errored(r.res.err),
                         !.set_index = c.set_index + 1]
       ELSE [c EXCEPT !.state = Done]

\* arm InSet(cols) without `self.state = InSet(cols.clone())` after a row
InSetArm_ForgetsRestore(q1, cols) ==
    LET r  == ProtocolNext(q1.conn, cols)
        q2 == [q1 EXCEPT !.conn = r.conn]
    IN CASE r.res.kind = "row"  -> [q |-> q2, item |-> r.res]
         [] r.res.kind = "none" -> [q |-> handle_next(q2), item |-> NoneItem]
         [] r.res.kind = "err"  -> [q |-> handle_next(q2), item |-> r.res]

\* Iterator::next for QueryResult, arm InSet(cols); q1 is self after
\* mem::replace(&mut self.state, OnBoundary)
InSetArm(q1, cols) ==
    LET r  == ProtocolNext(q1.conn, cols)
        q2 == [q1 EXCEPT !.conn = r.conn]
    IN CASE r.res.kind = "row"  -> [q |-> [q2 EXCEPT !.state = InSet(cols)], item |-> r.res]
         [] r.res.kind = "none" -> [q |-> handle_next(q2), item |-> NoneItem]
         [] r.res.kind = "err"  -> [q |-> handle_next(q2), item |-> r.res]

\* arm InEmptySet(_) that returns None without calling handle_next
InEmptySetArm_NoHandleNext(q1) == [q |-> q1, item |-> NoneItem]

\* arm InEmptySet(_)
InEmptySetArm(q1) == [q |-> handle_next(q1), item |-> NoneItem]

\* arm Errored(err), with the error left in the state
ErroredArm_KeepsError(q1, err) == [q |-> [q1 EXCEPT !.state = Errored(err)], item |-> err]

\* arm Errored(err)
ErroredArm(q1, err) == [q |-> handle_next(q1), item |-> err]

\* arm OnBoundary
OnBoundaryArm(q1) == [q |-> q1, item |-> NoneItem]

\* arm Done without `self.state = Done`
DoneArm_LeavesBoundary(q1) == [q |-> q1, item |-> NoneItem]

\* arm Done
DoneArm(q1) == [q |-> [q1 EXCEPT !.state = Done], item |-> NoneItem]

\* Iterator::next for QueryResult matching on self.state in place, without
\* mem::replace(&mut self.state, OnBoundary)
QueryResultNext_NoReplace(q) ==
    LET s0 == q.state
    IN CASE s0.tag = "InSet"      -> InSetArm(q, s0.cols)
         [] s0.tag = "InEmptySet" -> InEmptySetArm(q)
         [] s0.tag = "Errored"    -> ErroredArm(q, s0.err)
         [] s0.tag = "OnBoundary" -> OnBoundaryArm(q)
         [] s0.tag = "Done"       -> DoneArm(q)

\* Iterator::next for QueryResult
QueryResultNext(q) ==
    LET s0 == q.state
        q1 == [q EXCEPT !.state = OnBoundary]
    IN CASE s0.tag = "InSet"      -> InSetArm(q1, s0.cols)
         [] s0.tag = "InEmptySet" -> InEmptySetArm(q1)
         [] s0.tag = "Errored"    -> ErroredArm(q1, s0.err)
         [] s0.tag = "OnBoundary" -> OnBoundaryArm(q1)
         [] s0.tag = "Done"       -> DoneArm(q1)

\* next_set that hands out a view of the current index in Done as well
next_set_ViewWhenDone(q) ==
    CASE q.state.tag = "OnBoundary" -> NoneItem
      [] q.state.tag = "Errored" -> NoneItem
      [] OTHER -> ViewItem(q.set_index)

\* QueryResult::next_set: Some(Ok(ResultSet{set_index})) or None
next_set(q) ==
    CASE q.state.tag \in {"OnBoundary", "Done"} -> NoneItem
      [] q.state.tag = "Errored" -> NoneItem
      [] OTHER -> ViewItem(q.set_index)

\* the debug_assert of next_set; a failure is recorded
next_set_check(q) ==
    IF q.state.tag \in {"OnBoundary", "Done"} /\ more_results_exists(q.conn)
    THEN [q EXCEPT !.dbg = @ \cup {"next_set"}]
    ELSE q

\* Iterator::next for ResultSet without the comparison of the set indices
ResultSetNext_NoIndexCheck(q, v) == QueryResultNext(q)

\* Iterator::next for ResultSet with tag v
ResultSetNext(q, v) ==
    IF v = q.set_index THEN QueryResultNext(q)
    ELSE [q |-> q, item |-> NoneItem]

\* Drop for ResultSet looping on the owner: while self.inner.next().is_some() {}
RECURSIVE ResultSetDrop_DrainsInner(_, _)
ResultSetDrop_DrainsInner(q, v) ==
    LET r == QueryResultNext(q)
    IN IF r.item.kind = "none" THEN [q |-> r.q, log |-> <<>>]
       ELSE LET d == ResultSetDrop_DrainsInner(r.q, v)
            IN [q |-> d.q, log |-> <<r.item>> \o d.log]

\* impl Drop for ResultSet: while self.next().is_some() {}
RECURSIVE ResultSetDrop(_, _)
ResultSetDrop(q, v) ==
    LET r == ResultSetNext(q, v)
    IN IF r.item.kind = "none" THEN [q |-> r.q, log |-> <<>>]
       ELSE LET d == ResultSetDrop(r.q, v)
            IN [q |-> d.q, log |-> <<r.item>> \o d.log]

\* impl Drop for QueryResult: while self.next_set().is_some() {}
\* (the temporary view returned by next_set is dropped at each iteration)
RECURSIVE QueryResultDrop(_)
QueryResultDrop(q) ==
    LET r == next_set(q)
        c == next_set_check(q)
    IN IF r.kind = "none" THEN [q |-> c, log |-> <<>>]
       ELSE LET d == ResultSetDrop(c, r.set)
                e == QueryResultDrop(d.q)
            IN [q |-> e.q, log |-> d.log \o e.log]

\* SetIteratorState::ok_packet: <<ok>> for Some(ok), <<>> for None
ok_packet(st) == IF st.tag = "InEmptySet" THEN <<st.ok>> ELSE <<>>

\* SetIteratorState::columns
columns(st) == IF st.tag = "InSet" THEN <<st.cols>> ELSE <<>>

\* affected_rows that drops the packet's value
affected_rows_AlwaysDefault(st) == 0

\* QueryResult::affected_rows, last_insert_id, warnings, info_ref
affected_rows(st) == IF ok_packet(st) # <<>> THEN ok_packet(st)[1].affected ELSE 0
last_insert_id(st) == IF ok_packet(st) # <<>> THEN ok_packet(st)[1].last_insert_id ELSE <<>>
warnings(st) == IF ok_packet(st) # <<>> THEN ok_packet(st)[1].warnings ELSE 0
info_ref(st) == IF ok_packet(st) # <<>> THEN ok_packet(st)[1].info ELSE ""

----------------------------------------------------------------------------
(* The caller *)

Q == [conn |-> conn, state |-> state, set_index |-> set_index, dbg |-> dbg]

Op(name, item) ==
    [op |-> name, pre |-> state.tag, idx |-> set_index, tag |-> view, item |-> item]

RowsOf(log) == SelectSeq(log, LAMBDA i : i.kind = "row")
ErrsOf(log) == SelectSeq(log, LAMBDA i : i.kind = "err")

Init ==
    /\ resp \in Responses
    /\ LET q == from_state([cur |-> 0, pos |-> 0,
                            has_results |-> (resp[1].hdr = "cols"), raised |-> {},
                            desync |-> FALSE],
                           FromMeta(resp[1]))
       IN /\ conn = q.conn
          /\ state = q.state
          /\ set_index = q.set_index
          /\ dbg = q.dbg
    /\ view = NoView
    /\ alive = TRUE
    /\ last = [op |-> "new", pre |-> "OnBoundary", idx |-> 0, tag |-> NoView, item |-> NoneItem]
    /\ yielded = <<>>
    /\ delivered = <<>>
    /\ discarded = <<>>
    /\ views = <<>>
    /\ pulled = FALSE
    /\ first_pass = TRUE
    /\ pc = "idle"

Install(q) ==
    /\ conn' = q.conn
    /\ state' = q.state
    /\ set_index' = q.set_index
    /\ dbg' = q.dbg

\* the caller pulls a row from the QueryResult itself
Next_ ==
    /\ pc = "idle" /\ alive /\ view = NoView
    /\ LET r == QueryResultNext(Q)
       IN /\ Install(r.q)
          /\ last' = Op("next", r.item)
          /\ yielded' = yielded \o RowsOf(<<r.item>>)
          /\ delivered' = delivered \o ErrsOf(<<r.item>>)
          /\ first_pass' = (first_pass /\ r.item.kind # "none")
    /\ pulled' = TRUE
    /\ views' = <<>>
    /\ UNCHANGED <<resp, view, alive, discarded, pc>>

\* the caller asks for the view of the current set
NextSet ==
    /\ pc = "idle" /\ alive /\ view = NoView
    /\ LET r == next_set(Q)
       IN /\ last' = Op("next_set", r)
          /\ view' = IF r.kind = "view" THEN r.set ELSE NoView
          /\ views' = IF r.kind = "view" /\ ~pulled THEN Append(views, r.set) ELSE views
    /\ first_pass' = FALSE
    /\ dbg' = next_set_check(Q).dbg
    /\ UNCHANGED <<resp, conn, state, set_index, alive, yielded, delivered, discarded, pulled, pc>>

\* the caller pulls a row through the live view
ViewNext ==
    /\ pc = "idle" /\ alive /\ view # NoView
    /\ LET r == ResultSetNext(Q, view)
       IN /\ Install(r.q)
          /\ last' = Op("view_next", r.item)
          /\ yielded' = yielded \o RowsOf(<<r.item>>)
          /\ delivered' = delivered \o ErrsOf(<<r.item>>)
    /\ UNCHANGED <<resp, view, alive, discarded, views, pulled, first_pass, pc>>

\* the live view goes out of scope
ViewDrop ==
    /\ pc = "idle" /\ alive /\ view # NoView
    /\ LET d == ResultSetDrop(Q, view)
       IN /\ Install(d.q)
          /\ discarded' = discarded \o d.log
    /\ last' = Op("view_drop", NoneItem)
    /\ view' = NoView
    /\ UNCHANGED <<resp, alive, yielded, delivered, views, pulled, first_pass, pc>>

\* the QueryResult goes out of scope
Drop ==
    /\ pc = "idle" /\ alive /\ view = NoView
    /\ LET d == QueryResultDrop(Q)
       IN /\ Install(d.q)
          /\ discarded' = discarded \o d.log
    /\ last' = Op("drop", NoneItem)
    /\ alive' = FALSE
    /\ first_pass' = FALSE
    /\ UNCHANGED <<resp, view, yielded, delivered, views, pulled, pc>>

Next == Next_ \/ NextSet \/ ViewNext \/ ViewDrop \/ Drop

Spec == Init /\ [][Next]_vars

----------------------------------------------------------------------------
(* The drain loops, one iteration at a time *)

\* What the program does not hold: the record of what the caller has seen.
\* The stepwise specification follows the program's own state; of the
\* record it keeps only the entry of the drop (last) and what the drain
\* loops swallowed (discarded).
CallerRecord == <<yielded, delivered, views, pulled, first_pass>>

\* the caller pulls a row from the QueryResult itself
Pull ==
    /\ pc = "idle" /\ alive /\ view = NoView
    /\ Install(QueryResultNext(Q).q)
    /\ UNCHANGED <<resp, view, alive, last, discarded, pc, CallerRecord>>

\* the caller asks for the view of the current set
Borrow ==
    /\ pc = "idle" /\ alive /\ view = NoView
    /\ LET r == next_set(Q)
       IN view' = IF r.kind = "view" THEN r.set ELSE NoView
    /\ dbg' = next_set_check(Q).dbg
    /\ UNCHANGED <<resp, conn, state, set_index, alive, last, discarded, pc, CallerRecord>>

\* the caller pulls a row through the live view
ViewPull ==
    /\ pc = "idle" /\ alive /\ view # NoView
    /\ Install(ResultSetNext(Q, view).q)
    /\ UNCHANGED <<resp, view, alive, last, discarded, pc, CallerRecord>>

\* the live view goes out of scope: Drop for ResultSet is entered
ViewDropBegin ==
    /\ pc = "idle" /\ alive /\ view # NoView
    /\ pc' = "view_drop"
    /\ last' = Op("view_drop", NoneItem)
    /\ discarded' = <<>>
    /\ UNCHANGED <<resp, conn, state, set_index, view, alive, dbg, CallerRecord>>

\* the QueryResult goes out of scope: Drop for QueryResult is entered
DropBegin ==
    /\ pc = "idle" /\ alive /\ view = NoView
    /\ pc' = "drop"
    /\ last' = Op("drop", NoneItem)
    /\ discarded' = <<>>
    /\ UNCHANGED <<resp, conn, state, set_index, view, alive, dbg, CallerRecord>>

\* one evaluation of `self.next().is_some()` in Drop for ResultSet, for the
\* dropped view of the caller or for the temporary of Drop for QueryResult;
\* None ends the loop and the view is gone
DrainIter ==
    /\ pc \in {"view_drop", "drop"} /\ view # NoView
    /\ LET r == ResultSetNext(Q, view)
       IN /\ Install(r.q)
          /\ IF r.item.kind = "none"
             THEN /\ view' = NoView
                  /\ pc' = IF pc = "view_drop" THEN "idle" ELSE pc
                  /\ discarded' = discarded
             ELSE /\ discarded' = Append(discarded, r.item)
                  /\ UNCHANGED <<view, pc>>
    /\ UNCHANGED <<resp, alive, last, CallerRecord>>

\* one evaluation of `self.next_set().is_some()` in Drop for QueryResult;
\* a view returned is a temporary, dropped before the next evaluation
DropIter ==
    /\ pc = "drop" /\ view = NoView
    /\ LET r == next_set(Q)
       IN IF r.kind = "none"
          THEN alive' = FALSE /\ pc' = "idle" /\ view' = view
          ELSE view' = r.set /\ UNCHANGED <<alive, pc>>
    /\ dbg' = next_set_check(Q).dbg
    /\ UNCHANGED <<resp, conn, state, set_index, last, discarded, CallerRecord>>

NextDrain ==
    Pull \/ Borrow \/ ViewPull \/ ViewDropBegin \/ DropBegin \/ DrainIter \/ DropIter

\* A drop runs to completion on the thread that entered it: neither loop
\* awaits anything, so an iteration that can be taken is taken.
SpecDrain ==
    Init /\ [][NextDrain]_vars /\ WF_vars(DrainIter) /\ WF_vars(DropIter)

----------------------------------------------------------------------------
(* Properties *)

Dropped == ~alive
NoUnreadRow == ~conn.has_results
NoPendingSet == ~more_results_exists(conn)

\* C1: dropping the QueryResult, at any point of partial consumption, ends
\* with state = Done and with the connection having no unread row and no
\* pending set.
C1_DrainOnDisposal ==
    Dropped => (state = Done /\ NoUnreadRow /\ NoPendingSet)

NextSetSaidNone == last.op = "next_set" /\ last.item.kind = "none"
InOrderFromZero(s) == \A i \in 1..Len(s) : s[i] = i - 1

\* C2: when the caller only calls next_set, iterating or dropping each view
\* before the next call, the views carry the set indices 0, 1, ..., N-1 in
\* that order and next_set reports no further set only after N views.
C2_VisitsAllSets ==
    ~pulled => /\ InOrderFromZero(views)
               /\ NextSetSaidNone => Len(views) = NumSets

Count(seq, e) == Cardinality({ i \in 1..Len(seq) : seq[i] = e })
Raised == conn.raised
TimesYielded(e) == Count(delivered, e) + Count(discarded, e)
HeldInErrored(e) == state.tag = "Errored" /\ state.err = e

\* C3 (as stated): every error that occurred is delivered to the caller
\* exactly once by a row-iteration call: none twice and, once the iterator
\* has been disposed of, none missing.
C3_DeliveredExactlyOnce ==
    /\ \A e \in Raised : Count(delivered, e) <= 1
    /\ Dropped => \A e \in Raised : Count(delivered, e) = 1

\* C3 (amended): every error that occurred is yielded by a row-iteration
\* call at most once, and is at any time exactly one of: delivered to the
\* caller, swallowed by the drain loop of a dropped view (row-decode errors
\* only), or still held in the Errored state, where it stays when the
\* iterator is dropped.
C3_YieldedOnceOrDiscarded ==
    /\ \A i \in 1..Len(delivered) : delivered[i] \in Raised
    /\ \A i \in 1..Len(discarded) :
          discarded[i].kind = "err" => discarded[i] \in Raised /\ discarded[i].src = "row"
    /\ \A e \in Raised :
          /\ TimesYielded(e) <= 1
          /\ (TimesYielded(e) = 1) # HeldInErrored(e)

C3_Witness ==
    /\ Dropped
    /\ \E e \in Raised : Count(delivered, e) = 1
    /\ \E e \in Raised : Count(discarded, e) = 1
    /\ \E e \in Raised : HeldInErrored(e)

\* C4: whenever next_set reports no next set because the state is Errored,
\* the error held in that state has already been surfaced to the caller
\* through row iteration.
C4_ErrorAlreadySurfaced ==
    (NextSetSaidNone /\ state.tag = "Errored") => Count(delivered, state.err) >= 1

Stale == view # NoView /\ view # set_index
RowsLeft == conn.has_results /\ conn.pos < SetAt(conn.cur).nrows

\* C5: the set index never decreases, and once the index differs from the
\* tag of the live view, every step through the view (a pull, or its drop)
\* leaves the state, the index and the connection untouched, a pull yields
\* nothing, and the view stays stale for as long as it lives.
C5_StaleViewInert ==
    [][ /\ set_index' >= set_index
        /\ Stale => /\ conn' = conn /\ state' = state /\ set_index' = set_index
                    /\ view' # NoView => (view' = view /\ last'.item = NoneItem) ]_vars

C5_Witness ==
    /\ last.op = "view_next" /\ last.tag # last.idx
    /\ Stale /\ RowsLeft

\* C6: a row or an error yielded through a view tagged k is a row, or the
\* row-decode error, of set k.
C6_ViewYieldsOwnSet ==
    (last.op = "view_next" /\ last.item.kind \in {"row", "err"}) =>
        /\ last.item.set = last.tag
        /\ last.item.kind = "err" => last.item.src = "row"

C6_Witness ==
    /\ last.op = "view_next" /\ last.item.kind = "row"
    /\ last.tag = 1 /\ NumSets > 2 /\ SetAt(2).nrows > 0

\* C7: after the drop of a view tagged k, set k has been read to its end, no
\* frame of set k+1 or of a later set has been read (at most the header of
\* set k+1 was resolved), and the set index is k or k+1.
C7_ViewDropDrainsOwnSet ==
    last.op = "view_drop" =>
        LET k == last.tag
        IN /\ set_index \in {k, k + 1}
           /\ conn.cur \in {k, k + 1}
           /\ ~conn.desync
           /\ conn.cur = k => ~conn.has_results
           /\ conn.cur = k + 1 =>
                 /\ conn.pos = 0
                 /\ conn.has_results = (SetAt(k + 1).hdr = "cols")

C7_Witness ==
    /\ last.op = "view_drop" /\ last.pre = "InSet"
    /\ Len(RowsOf(discarded)) > 0
    /\ conn.cur = last.tag + 1 /\ RowsLeft

RowsOfSet(k) == [i \in 1..SetAt(k).nrows |-> RowItem(k, i - 1)]
RECURSIVE AllRowsFrom(_)
AllRowsFrom(k) == IF k >= NumSets THEN <<>> ELSE RowsOfSet(k) \o AllRowsFrom(k + 1)
Before(a, b) == a.set < b.set \/ (a.set = b.set /\ a.row < b.row)

\* C8: the rows handed to the caller are in emission order (by set, then by
\* row within the set), none twice; a view is never handed out for a set
\* earlier than a row already delivered; and a caller that reached Done without any row having been
\* swallowed by a drain has received exactly the rows of the response.
C8_EmissionOrder ==
    /\ \A i \in 1..(Len(yielded) - 1) : Before(yielded[i], yielded[i + 1])
    /\ (last.op = "next_set" /\ last.item.kind = "view") =>
           \A i \in 1..Len(yielded) : yielded[i].set <= last.item.set
    /\ (state = Done /\ RowsOf(discarded) = <<>>) => yielded = AllRowsFrom(0)

C8_Witness ==
    /\ state = Done /\ RowsOf(discarded) = <<>>
    /\ Len(yielded) > 2
    /\ yielded[1].set # yielded[Len(yielded)].set

\* C9: from state Done every operation leaves the state Done, the set index
\* and the connection unchanged, and returns nothing.
C9_DoneAbsorbing ==
    [][ state = Done => /\ state' = Done
                        /\ set_index' = set_index
                        /\ conn' = conn
                        /\ last'.item = NoneItem ]_vars

C9_Witness ==
    /\ state = Done /\ last.pre = "Done" /\ last.op = "next_set"
    /\ pulled /\ NumSets > 1

\* C10: outside InEmptySet the metadata accessors return the defaults; in
\* InEmptySet they return the fields of the status record of the current set.
C10_MetadataOnlyInEmpty ==
    IF state.tag = "InEmptySet"
    THEN /\ SetAt(set_index).hdr = "ok"
         /\ LET ok == SetAt(set_index).ok[1]
            IN /\ affected_rows(state) = ok.affected
               /\ last_insert_id(state) = ok.last_insert_id
               /\ warnings(state) = ok.warnings
               /\ info_ref(state) = ok.info
    ELSE /\ affected_rows(state) = 0
         /\ last_insert_id(state) = <<>>
         /\ warnings(state) = 0
         /\ info_ref(state) = ""

C10_Witness ==
    /\ state.tag = "InEmptySet" /\ set_index > 0
    /\ affected_rows(state) > 0 /\ last_insert_id(state) # <<>>
    /\ warnings(state) > 0 /\ info_ref(state) # ""

CallerPulled == last.op \in {"next", "view_next"}
GotRowError == CallerPulled /\ last.item.kind = "err" /\ last.item.src = "row"

\* C11: when a pull returns the row-decode error of set k, the error has been
\* delivered once; if a further set exists the iterator stands on set k+1
\* and next_set returns the view of set k+1; and the failed set is never
\* read again: no row is yielded from a set whose decode error was raised.
C11_ErrorThenNextSet ==
    /\ GotRowError =>
          LET k == last.item.set
          IN /\ Count(delivered, last.item) = 1
             /\ k + 1 < NumSets => /\ set_index = k + 1
                                   /\ next_set(Q) = ViewItem(k + 1)
    /\ \A e \in Raised : e.src = "row" => (conn.cur >= e.set /\ ~(conn.cur = e.set /\ RowsLeft))
    /\ (CallerPulled /\ last.item.kind = "row") => ErrItem("row", last.item.set) \notin Raised

\* The scenario of C12: set 0 is row-bearing and decodes, set 1 is a status
\* record.
Scenario12 ==
    /\ NumSets >= 2
    /\ SetAt(0).hdr = "cols" /\ ~SetAt(0).bad
    /\ SetAt(1).hdr = "ok"
Set0Exhausted ==
    last.op = "next" /\ last.pre = "InSet" /\ last.idx = 0 /\ last.item = NoneItem
GotView1 == last.op = "next_set" /\ last.item = ViewItem(1)
Set1Consumed ==
    /\ last.op \in {"view_next", "view_drop"}
    /\ last.tag = 1 /\ last.idx = 1 /\ last.pre = "InEmptySet"
FirstSetThenView ==
    /\ Set0Exhausted => /\ yielded = RowsOfSet(0)
                        /\ set_index = 1
                        /\ next_set(Q) = ViewItem(1)
    /\ GotView1 => set_index = 1

\* C12 (as stated): in the scenario, row iteration yields the rows of set 0
\* in order and then nothing, next_set yields the view of set 1, and
\* affected_rows read after set 1 has been consumed returns the affected
\* count of its status record.
C12_AffectedAfterConsuming ==
    Scenario12 => /\ FirstSetThenView
                  /\ Set1Consumed => affected_rows(state) = SetAt(1).ok[1].affected

\* C12 (amended): as above, but affected_rows returns the count of set 1
\* while set 1 is current and unpulled (on the iterator after set 0 is
\* exhausted, or through the view next_set returned); once set 1 has been
\* consumed through its view the iterator stands on set 2 or is Done and
\* affected_rows returns the value of that state.
C12_AffectedWhileCurrent ==
    Scenario12 =>
        /\ FirstSetThenView
        /\ (Set0Exhausted \/ GotView1) => affected_rows(state) = SetAt(1).ok[1].affected
        /\ Set1Consumed =>
              /\ state = Done \/ set_index = 2
              /\ affected_rows(state) =
                    IF state.tag = "InEmptySet" THEN SetAt(2).ok[1].affected ELSE 0

C12_Witness ==
    /\ Scenario12 /\ GotView1 /\ pulled
    /\ Len(yielded) = 2 /\ yielded = RowsOfSet(0)
    /\ affected_rows(state) = 5

\* C13: every item the QueryResult yields from its creation up to the first
\* no-more-rows signal, when the caller only pulls rows from it, is a row or
\* the row-decode error of set 0.
C13_DirectIterationFirstSetOnly ==
    first_pass => /\ \A i \in 1..Len(yielded) : yielded[i].set = 0
                  /\ \A i \in 1..Len(delivered) : delivered[i] = ErrItem("row", 0)

\* C14: OnBoundary is not the state after construction nor after any
\* operation of the caller: the state is InSet, InEmptySet, Errored or Done.
C14_BoundaryNotObservable ==
    state.tag \in {"InSet", "InEmptySet", "Errored", "Done"}

C14_Witness ==
    /\ CallerPulled /\ last.item = NoneItem
    /\ last.pre = "InSet" /\ state.tag = "InSet" /\ set_index = last.idx + 1

\* C15: the set index equals the number of set headers resolved after the
\* first one; a pull that yields a row and the transition to Done leave it
\* unchanged.
C15_IndexCountsHeaders ==
    /\ set_index = conn.cur
    /\ set_index >= last.idx
    /\ (CallerPulled /\ last.item.kind = "row") => set_index = last.idx
    /\ (CallerPulled /\ state = Done) => set_index = last.idx
    /\ (CallerPulled /\ last.tag \in {NoView, last.idx}
           /\ last.pre \in {"InEmptySet", "Errored"} /\ state # Done) =>
          set_index = last.idx + 1

C15_Witness ==
    /\ CallerPulled /\ last.pre = "InSet" /\ last.idx = 1
    /\ state.tag = "Errored" /\ set_index = 2

\* C16: handle_next is only ever called with state = OnBoundary: its debug
\* check never fails.
C16_HandleNextOnBoundary == "handle_next" \notin dbg

C16_Witness ==
    /\ CallerPulled /\ last.pre = "InEmptySet" /\ last.tag = last.idx
    /\ state = Done /\ conn.cur > 0

\* C17: a pull, by the caller, in state InSet that yields a row leaves the
\* state (InSet with the same columns) and the set index as they were and
\* only moves the connection one row frame further in the same set: no
\* header is resolved.
C17_RowPullKeepsState ==
    [][ (state.tag = "InSet" /\ last'.op \in {"next", "view_next"}
            /\ last'.item.kind = "row") =>
           /\ state' = state
           /\ set_index' = set_index
           /\ conn' = [conn EXCEPT !.pos = conn.pos + 1]
           /\ last'.item = RowItem(state.cols, conn.pos) ]_vars

C17_Witness ==
    /\ CallerPulled /\ last.item.kind = "row" /\ last.item.row = 1
    /\ state = InSet(1) /\ set_index = 1 /\ conn.pos = 2

\* C18: whenever the state is Done (or OnBoundary) the connection has no
\* pending set, and the debug_assert of next_set has never failed.
C18_DoneMeansNoPendingSet ==
    /\ state.tag \in {"Done", "OnBoundary"} => ~more_results_exists(conn)
    /\ "next_set" \notin dbg

C18_Witness ==
    /\ NextSetSaidNone /\ last.pre = "Done"
    /\ conn.cur = MaxSets - 1

PullOrViewDrop == last.op \in {"next", "view_next", "view_drop"}
DefaultMetadata(st) ==
    /\ affected_rows(st) = 0 /\ last_insert_id(st) = <<>>
    /\ warnings(st) = 0 /\ info_ref(st) = ""
MetadataOf(st, ok) ==
    /\ affected_rows(st) = ok.affected /\ last_insert_id(st) = ok.last_insert_id
    /\ warnings(st) = ok.warnings /\ info_ref(st) = ok.info

\* C20: a pull in state InEmptySet (on the QueryResult, through the view of
\* the current set, or by the drop of that view) returns nothing and
\* discards the status record: the state becomes the one resolved from the
\* header of the next set, with the set index one higher, or Done when no
\* set is pending; afterwards the metadata accessors return the fields of
\* the status record of the new set when the new state is InEmptySet, and
\* the defaults when it is InSet, Errored or Done.
C20_PullDiscardsStatus ==
    [][ (state.tag = "InEmptySet" /\ ~Stale /\ PullOrViewDrop') =>
           /\ last'.item = NoneItem
           /\ IF more_results_exists(conn)
              THEN /\ set_index' = set_index + 1
                   /\ state'.tag = CASE SetAt(set_index + 1).hdr = "cols" -> "InSet"
                                      [] SetAt(set_index + 1).hdr = "ok"   -> "InEmptySet"
                                      [] SetAt(set_index + 1).hdr = "err"  -> "Errored"
              ELSE state' = Done /\ set_index' = set_index
           /\ IF state'.tag = "InEmptySet"
              THEN MetadataOf(state', SetAt(set_index + 1).ok[1])
              ELSE DefaultMetadata(state') ]_vars

C20_Witness ==
    /\ last.op = "view_drop" /\ last.pre = "InEmptySet" /\ last.tag = last.idx
    /\ SetAt(last.idx).ok[1].affected = 1
    /\ set_index = last.idx + 1
    /\ state.tag = "InEmptySet" /\ affected_rows(state) = 5

InViewDrop == pc = "view_drop"
InDrop == pc = "drop"
LoopLeft == pc = "idle"

\* C19: the drain loop of a dropped ResultSet and the drain loop of a dropped
\* QueryResult, entered in any reachable state, each end: the view drop
\* returns to the caller, and the drop of the QueryResult ends with the
\* QueryResult gone.
C19_DisposalTerminates ==
    /\ InViewDrop ~> LoopLeft
    /\ InDrop ~> (LoopLeft /\ Dropped)

\* the drop of the view of the last set has ended after a row that failed
\* to decode: the set index did not move
C19_Witness ==
    /\ LoopLeft /\ last.op = "view_drop" /\ view = NoView
    /\ last.tag = NumSets - 1 /\ set_index = last.tag /\ state = Done
    /\ last.pre = "InSet" /\ NumSets > 1
    /\ Len(discarded) > 1 /\ discarded[Len(discarded)] = ErrItem("row", last.tag)

====
